---- MODULE Spec2Model ----
(***************************************************************************)
(* The resilient collection pipeline of Degen-Scraper: TwitterPipeline     *)
(* (run, initializeScraper, collectTweets, processTweetData,               *)
(* handleRateLimit, cleanup) and DataOrganizer.saveTweets.                 *)
(*                                                                         *)
(* Numbers.  TLC's integers are 32 bits wide and JavaScript's timestamps   *)
(* reach 1e12 and beyond, so every timestamp of the model is counted in    *)
(* units of 1e6: MsThreshold == 1000000 stands for 1e12, the timestamp 1   *)
(* for 1000000.  Comparison with 0, comparison with the threshold and the  *)
(* multiplication by 1000 all commute with that unit.  Delays of           *)
(* handleRateLimit are plain milliseconds.                                 *)
(*                                                                         *)
(* JavaScript values.  An optional number is a record [k, v]: k = "num"    *)
(* with the value v, k = "undef" (the field is absent) or k = "nan".  A    *)
(* value that is either null or one object is a sequence of length 0 or 1. *)
(***************************************************************************)
EXTENDS Integers, Sequences, FiniteSets

VARIABLES
  pc,              \* the position of run() / of the function under study
  missing,         \* the credentials absent from process.env
  cookieFile,      \* the cookie file on disk: "absent", "valid" or "stale"
  maxRetries,      \* config.twitter.maxRetries
  fallbackEnabled, \* config.fallback.enabled
  loggedIn,        \* what scraper.isLoggedIn() answers
  retryCount,      \* initializeScraper's local retryCount
  authLog,         \* the awaited steps initializeScraper has taken, in order
  authResult,      \* what initializeScraper returned: "pending", "true", "false"
  cluster,         \* this.cluster: "none" (null), "open" or "closed"
  collector,       \* the collection method run has invoked: "none", "primary", "fallback"
  options,         \* program.opts(): startDate and endDate
  delivered,       \* the raw records the search sequence has yielded so far
  allTweets,       \* collectTweets' Map, as its entries in insertion order
  stats,           \* this.stats
  rawFile,         \* raw/tweets.json: <<>> when not written, else <<the list>>
  rateLimitErrors, \* rate-limit errors the search sequence has thrown
  loggedOut,       \* scraper.logout() has completed
  cleanupRan,      \* cleanup() has been called
  outcome,         \* how run ended: "running", "returned", "threw", "exited"
  nIn,             \* normalizer study: the timestamp fed in
  nOnce,           \* normalizer study: the result for nIn
  nTwice,          \* normalizer study: the result for nOnce's timestamp
  rlAttempt,       \* rate-limit study: the last retryCount passed in
  rlDelay,         \* rate-limit study: the delay the last call computed, in ms
  rlWait,          \* rate-limit study: the time the last call slept, in ms
  fbTweets,        \* collectWithFallback: the Set `tweets`, in insertion order
  lastTweetCount,  \* collectWithFallback: lastTweetCount
  unchangedCount,  \* collectWithFallback: unchangedCount
  elapsed,         \* collectWithFallback: Date.now() - sessionStartTime, in ticks
  scraped,         \* collectWithFallback: the ids each scroll cycle has scraped
  fallbackResult,  \* collectWithFallback: <<>> until it returns, else <<the array>>
  urlsFile,        \* raw/urls.txt: <<>> when not written, else <<the urls>>
  statsFile,       \* analytics/stats.json: <<>> or <<the analytics>>
  finetuningFile,  \* processed/finetuning.jsonl: <<>> or <<the entries>>
  summaryFile,     \* exports/summary.md: <<>> or <<what the summary shows>>
  savedTweets,     \* saveTweets: <<>> before any call, else <<the last argument>>
  finetuningData,  \* saveTweets: what generateFinetuningData last returned
  saveOutcome,     \* saveTweets: "none", or how the last call ended
  answers,         \* merge command: <<>> or <<what the prompts resolved with>>
  target,          \* merge command: is the new name lowercase, is targetDate today
  datasets,        \* merge: per source account, <<>> or <<its latest raw list>>
  mergeOptions,    \* merge: tweetsPerAccount, filterRetweets, sortBy
  targetDirs,      \* merge: the target's directories for targetDate exist
  mergeIndex,      \* merge: the number of source accounts processed
  selected,        \* merge: topTweets of each processed account, in order
  mergedTweets,    \* merge: the Map mergedTweets
  mergedStats,     \* merge: totalTweets, accountBreakdown, dateRange
  mergedFiles,     \* merge: the four files of the target, <<>> or <<content>>
  mergeOutcome     \* merge: "running", "returned" or "threw"

authVars    == << missing, cookieFile, maxRetries, fallbackEnabled, loggedIn,
                  retryCount, authLog, authResult >>
collectVars == << options, delivered, allTweets, stats, rawFile, rateLimitErrors >>
endVars     == << loggedOut, cleanupRan, outcome >>
studyVars   == << nIn, nOnce, nTwice, rlAttempt, rlDelay, rlWait >>
fallbackVars == << fbTweets, lastTweetCount, unchangedCount, elapsed, scraped,
                   fallbackResult >>
organizerVars == << urlsFile, statsFile, finetuningFile, summaryFile,
                    savedTweets, finetuningData, saveOutcome >>
mergeVars == << answers, target, datasets, mergeOptions, targetDirs, mergeIndex,
                selected, mergedTweets, mergedStats, mergedFiles, mergeOutcome >>

vars == << pc, cluster, collector, authVars, collectVars, endVars, studyVars,
           fallbackVars, organizerVars, mergeVars >>

(***************************************************************************)
(* Bounds of the model.                                                    *)
(***************************************************************************)
MaxRetriesBound == 2   \* maxRetries is drawn from 1..MaxRetriesBound
MaxFeed         == 3   \* the search sequence yields at most MaxFeed records
MaxBatches      == 4   \* ... and at most MaxBatches when stagnation is studied
MaxSmallT       == 40  \* the normalizer study feeds every t in -2..MaxSmallT
MaxAttempt      == 6   \* handleRateLimit is called with retryCount in 1..MaxAttempt
MaxHits         == 3   \* handleRateLimit is called at most MaxHits times
SessionTicks    == 5   \* config.fallback.sessionDuration, in ticks of the clock
MaxSaved        == 2   \* saveTweets is handed at most MaxSaved tweets
MaxDataset      == 2   \* a source account's dataset holds at most MaxDataset tweets
MaxCap          == 1   \* tweetsPerAccount is drawn from 0..MaxCap

(***************************************************************************)
(* JavaScript values.                                                      *)
(***************************************************************************)
Num(n) == [k |-> "num", v |-> n]
Undef  == [k |-> "undef", v |-> 0]
NaN    == [k |-> "nan", v |-> 0]
NoId   == ""

\* !x for an optional number: undefined, NaN and 0 are falsy.
Falsy(x) == x.k # "num" \/ x.v = 0

\* x?.getTime(): undefined without a Date, NaN for an invalid Date.
GetTime(timeParsed) == timeParsed

Min(a, b) == IF a <= b THEN a ELSE b

(***************************************************************************)
(* Program constants.                                                      *)
(***************************************************************************)
MsThreshold   == 1000000  \* 1e12, in units of 1e6
SecondsToMs   == 1000
BaseDelayMs   == 60000    \* handleRateLimit: baseDelay
MaxDelayMs    == 900000   \* handleRateLimit: maxDelay = 15 * 60 * 1000
TopTweetsShown == 5       \* generateAnalytics: topTweets is .slice(0, 5)

(***************************************************************************)
(* processTweetData: the record normalizer.                                *)
(***************************************************************************)
MissingIdNever(tweet) == FALSE

\* if (!tweet || !tweet.id) return null;
MissingId(tweet) == tweet.id = NoId

\* let timestamp = tweet.timestamp; if (!timestamp) timestamp = tweet.timeParsed?.getTime();
ResolveTimestamp(tweet) ==
  IF Falsy(tweet.timestamp) THEN GetTime(tweet.timeParsed) ELSE tweet.timestamp

\* if (timestamp < 1e12) timestamp *= 1000;
ScaleTimestamp(t) == IF t < MsThreshold THEN t * SecondsToMs ELSE t

\* if (isNaN(timestamp) || timestamp <= 0) return null;  (t is a number here)
InvalidTimestamp(t) == t <= 0

\* the two updates of this.stats.oldestTweetDate / newestTweetDate
UpdateDateBounds(st, t) ==
  [st EXCEPT
     !.oldestTweetDate =
        IF st.oldestTweetDate = <<>> \/ t < st.oldestTweetDate[1] THEN <<t>> ELSE @,
     !.newestTweetDate =
        IF st.newestTweetDate = <<>> \/ t > st.newestTweetDate[1] THEN <<t>> ELSE @]

\* The result (<<>> for null, <<tweet>> otherwise) and this.stats afterwards.
ProcessTweetData(tweet, st) ==
  IF MissingId(tweet) THEN [tweet |-> <<>>, stats |-> st]
  ELSE LET resolved == ResolveTimestamp(tweet) IN
    IF Falsy(resolved) THEN [tweet |-> <<>>, stats |-> st]
    ELSE LET timestamp == ScaleTimestamp(resolved.v) IN
      IF InvalidTimestamp(timestamp) THEN [tweet |-> <<>>, stats |-> st]
      ELSE [tweet |-> << [id |-> tweet.id, text |-> tweet.text,
                          timestamp |-> timestamp] >>,
            stats |-> UpdateDateBounds(st, timestamp)]

(***************************************************************************)
(* collectTweets: the Map keyed by id, the date filter, the loop body.     *)
(***************************************************************************)
MapKeyByText(tweet) == tweet.text

\* the key of allTweets.has(tweet.id) and allTweets.set(tweet.id, ...)
MapKey(tweet) == tweet.id

MapHasNever(map, key) == FALSE

\* Map.prototype.has
MapHas(map, key) == \E i \in DOMAIN map : map[i].key = key

\* Map.prototype.set: an existing key keeps its place and takes the new value
MapSet(map, key, value) ==
  IF \E i \in DOMAIN map : map[i].key = key
    THEN [i \in DOMAIN map |->
            IF map[i].key = key THEN [key |-> key, value |-> value] ELSE map[i]]
    ELSE Append(map, [key |-> key, value |-> value])

\* Array.from(allTweets.values())
MapValues(map) == [i \in DOMAIN map |-> map[i].value]

\* if (startDate && endDate)
DateFilterOn(opts) == opts.startDate # <<>> /\ opts.endDate # <<>>

InDateRangeExclusive(t, opts) == t > opts.startDate[1] /\ t < opts.endDate[1]

\* tweetDate >= new Date(startDate) && tweetDate <= new Date(endDate)
InDateRange(t, opts) == t >= opts.startDate[1] /\ t <= opts.endDate[1]

\* One iteration of  for await (const tweet of searchResults) { ... }
CollectOne(map, st, tweet, opts) ==
  IF MapHas(map, MapKey(tweet)) THEN [map |-> map, stats |-> st]
  ELSE LET p == ProcessTweetData(tweet, st) IN
    IF p.tweet = <<>> THEN [map |-> map, stats |-> p.stats]
    ELSE IF DateFilterOn(opts) /\ ~InDateRange(p.tweet[1].timestamp, opts)
      THEN [map |-> map, stats |-> p.stats]
      ELSE [map |-> MapSet(map, MapKey(tweet), p.tweet[1]), stats |-> p.stats]

(***************************************************************************)
(* The inputs: raw records of the search capability, date options.         *)
(***************************************************************************)
Raw(id, text, timestamp, timeParsed) ==
  [id |-> id, text |-> text, timestamp |-> timestamp, timeParsed |-> timeParsed]

\* Accepted records: a seconds timestamp, millisecond timestamps, a parsed
\* date only, a small timestamp.  Rejected ones: no id, no time at all, a
\* negative timestamp, a zero timestamp with an invalid Date.
RawRecords ==
  { Raw("1", "hello", Num(1700), Undef),
    Raw("1", "dup", Num(1800000), Undef),
    Raw("2", "hello", Undef, Num(1650000)),
    Raw("2", "dup", NaN, Num(1)),
    Raw(NoId, "hello", Num(1700000), Undef),
    Raw("1", "hello", Undef, Undef),
    Raw("2", "dup", Num(-1), Num(1700000)),
    Raw("1", "dup", Num(0), NaN) }

\* The records of the whole-run specification.
RunRecords ==
  { Raw("1", "hello", Num(1700), Undef),
    Raw("1", "dup", Num(1800000), Undef),
    Raw("1", "hello", Undef, Undef) }

\* --start-date / --end-date: none, only one of them, both (a range whose
\* two ends are timestamps of accepted records).
DateOptions ==
  { [startDate |-> <<>>, endDate |-> <<>>],
    [startDate |-> <<1600000>>, endDate |-> <<>>],
    [startDate |-> <<1650000>>, endDate |-> <<1700000>>] }

InitStats ==
  [rateLimitHits |-> 0, fallbackCount |-> 0,
   oldestTweetDate |-> <<>>, newestTweetDate |-> <<>>]

(***************************************************************************)
(* The session manager: loadCookies and initializeScraper.                 *)
(***************************************************************************)
Credentials == {"username", "password", "email"}

\* await fs.access(path).catch(() => false): fs.access resolves with
\* undefined when the file is accessible, the catch yields false when not.
FsAccess(file) == IF file = "absent" THEN "false" ELSE "undefined"

\* the truthiness of what FsAccess yields
Truthy(value) == value \notin {"false", "undefined"}

\* loadCookies: whether it returned true, and isLoggedIn() afterwards
\* (setCookies with the cookies of a live session logs the scraper in).
LoadCookies(file, session) ==
  IF Truthy(FsAccess(file))
    THEN [ok |-> TRUE, loggedIn |-> file = "valid"]
    ELSE [ok |-> FALSE, loggedIn |-> session]

\* validateEnvironment: const required = ["TWITTER_USERNAME", "TWITTER_PASSWORD"]
MissingRequired(absent) == absent \cap {"username", "password"}

\* if (!username || !password || !email)
CredentialsIncomplete(absent) == absent # {}

RetriesExhaustedLate(count, max) == count > max

\* if (retryCount >= this.config.twitter.maxRetries) return false;
RetriesExhausted(count, max) == count >= max

LoginEvents == {"loginThrew", "loginRefused", "loginOk"}

\* the number of scraper.login calls in a log of steps
LoginCalls(log) == Cardinality({i \in DOMAIN log : log[i] \in LoginEvents})

(***************************************************************************)
(* The rate-limit controller: handleRateLimit and randomDelay.             *)
(***************************************************************************)
RECURSIVE Pow2(_)
Pow2(n) == IF n <= 0 THEN 1 ELSE 2 * Pow2(n - 1)

\* the values Math.random() and gaussianRand() take, in thousandths
RandomDraws == {0, 250, 500, 999}

\* const exponentialDelay = baseDelay * Math.pow(2, retryCount - 1);
ExponentialDelay(attempt) == BaseDelayMs * Pow2(attempt - 1)

\* const jitter = Math.random() * 0.1 * exponentialDelay;  (the delay is a
\* multiple of 10000, so the product with draw / 1000 / 10 is exact)
Jitter(attempt, draw) == (ExponentialDelay(attempt) \div 10000) * draw

\* const delay = Math.min(exponentialDelay + jitter, maxDelay);
RateLimitDelay(attempt, draw) ==
  Min(ExponentialDelay(attempt) + Jitter(attempt, draw), MaxDelayMs)

\* randomDelay(delay, delay * 1.1): Math.floor(min + gaussianRand() * (max - min))
RandomDelayTenth(delay, gauss) == delay + (delay * gauss) \div 10000

(***************************************************************************)
(* The initial states.                                                     *)
(***************************************************************************)
StudyIdle ==
  /\ nIn = 0 /\ nOnce = <<>> /\ nTwice = <<>>
  /\ rlAttempt = 0 /\ rlDelay = 0 /\ rlWait = 0

FallbackIdle ==
  /\ fbTweets = <<>> /\ lastTweetCount = 0 /\ unchangedCount = 0
  /\ elapsed = 0 /\ scraped = <<>> /\ fallbackResult = <<>>

NoFiles == [tweets |-> <<>>, stats |-> <<>>, finetuning |-> <<>>, mergeStats |-> <<>>]

InitMergedStats ==
  [totalTweets |-> 0, accountBreakdown |-> <<>>,
   dateRange |-> [oldest |-> <<>>, newest |-> <<>>]]

\* no merge under way
MergeIdle ==
  /\ answers = <<>> /\ target = <<>>
  /\ datasets = <<>> /\ mergeOptions = <<>> /\ targetDirs = FALSE
  /\ mergeIndex = 0 /\ selected = <<>> /\ mergedTweets = <<>>
  /\ mergedStats = InitMergedStats /\ mergedFiles = NoFiles
  /\ mergeOutcome = "running"

\* a fresh output directory: no artifact written yet
OrganizerIdle ==
  /\ urlsFile = <<>> /\ statsFile = <<>> /\ finetuningFile = <<>>
  /\ summaryFile = <<>> /\ savedTweets = <<>> /\ finetuningData = <<>>
  /\ saveOutcome = "none"

CollectIdle ==
  /\ delivered = <<>> /\ allTweets = <<>> /\ stats = InitStats /\ rawFile = <<>>
  /\ rateLimitErrors = 0

EndIdle ==
  /\ cluster = "none" /\ collector = "none"
  /\ loggedOut = FALSE /\ cleanupRan = FALSE /\ outcome = "running"

\* A pipeline as constructed, before run(): any environment, any cookie
\* file, either value of the fallback switch, any date options.
Init ==
  /\ pc = "idle"
  /\ missing \in SUBSET Credentials
  /\ cookieFile \in {"absent", "valid", "stale"}
  /\ maxRetries \in 1..MaxRetriesBound
  /\ fallbackEnabled \in BOOLEAN
  /\ loggedIn = FALSE /\ retryCount = 0 /\ authLog = <<>> /\ authResult = "pending"
  /\ options \in DateOptions
  /\ CollectIdle /\ EndIdle /\ StudyIdle /\ FallbackIdle /\ OrganizerIdle
  /\ MergeIdle

(***************************************************************************)
(* run(), step by step.                                                    *)
(***************************************************************************)
\* initializeFallback(): launches the cluster once.
InitializeFallback ==
  /\ pc = "idle" /\ cluster = "none"
  /\ cluster' = "open"
  /\ UNCHANGED << pc, collector, authVars, collectVars, endVars, studyVars,
                  fallbackVars, organizerVars, mergeVars >>

\* validateEnvironment(): process.exit(1) when a required variable is absent.
ValidateEnvironmentExit ==
  /\ pc = "idle" /\ MissingRequired(missing) # {}
  /\ pc' = "done" /\ outcome' = "exited"
  /\ UNCHANGED << cluster, collector, authVars, collectVars, loggedOut,
                  cleanupRan, studyVars, fallbackVars, organizerVars,
                  mergeVars >>

ValidateEnvironmentOk ==
  /\ pc = "idle" /\ MissingRequired(missing) = {}
  /\ pc' = "initializeScraper"
  /\ UNCHANGED << cluster, collector, authVars, collectVars, endVars, studyVars,
                  fallbackVars, organizerVars, mergeVars >>

\* initializeScraper, the cookie part: if (await this.loadCookies()) { if
\* (await this.scraper.isLoggedIn()) return true; }
CookieRestore ==
  /\ pc = "initializeScraper"
  /\ LET r == LoadCookies(cookieFile, loggedIn) IN
       /\ loggedIn' = r.loggedIn
       /\ authLog' = Append(authLog, "loadCookies")
       /\ IF r.ok /\ r.loggedIn
            THEN authResult' = "true" /\ pc' = "initialized"
            ELSE authResult' = authResult /\ pc' = "credentials"
  /\ UNCHANGED << missing, cookieFile, maxRetries, fallbackEnabled, retryCount,
                  cluster, collector, collectVars, endVars, studyVars,
                  fallbackVars, organizerVars, mergeVars >>

\* initializeScraper, the credentials check: return false without a login.
CredentialsMissing ==
  /\ pc = "credentials" /\ CredentialsIncomplete(missing)
  /\ authResult' = "false" /\ pc' = "initialized"
  /\ UNCHANGED << missing, cookieFile, maxRetries, fallbackEnabled, loggedIn,
                  retryCount, authLog, cluster, collector, collectVars, endVars,
                  studyVars, fallbackVars, organizerVars, mergeVars >>

\* while (retryCount < maxRetries), entered for the first time
LoginLoopEnter ==
  /\ pc = "credentials" /\ ~CredentialsIncomplete(missing)
  /\ IF retryCount < maxRetries
       THEN authResult' = authResult /\ pc' = "login"
       ELSE authResult' = "false" /\ pc' = "initialized"
  /\ UNCHANGED << missing, cookieFile, maxRetries, fallbackEnabled, loggedIn,
                  retryCount, authLog, cluster, collector, collectVars, endVars,
                  studyVars, fallbackVars, organizerVars, mergeVars >>

\* One iteration whose login succeeds: delay, login, isLoggedIn() is true,
\* saveCookies (which swallows its own failure), return true.
LoginSucceeds ==
  /\ pc = "login"
  /\ \E saved \in BOOLEAN :
       cookieFile' = IF saved THEN "valid" ELSE cookieFile
  /\ loggedIn' = TRUE
  /\ authLog' = authLog \o << "delay", "loginOk", "saveCookies" >>
  /\ authResult' = "true" /\ pc' = "initialized"
  /\ UNCHANGED << missing, maxRetries, fallbackEnabled, retryCount, cluster,
                  collector, collectVars, endVars, studyVars, fallbackVars,
                  organizerVars, mergeVars >>

\* One iteration whose login throws, or after which isLoggedIn() is false (or
\* throws): the catch counts it, returns false when the retries are used
\* up, else sleeps the backoff and the loop tests its condition again.
LoginFails ==
  /\ pc = "login"
  /\ \E how \in {"loginThrew", "loginRefused"} :
       LET count == retryCount + 1 IN
         /\ retryCount' = count
         /\ IF RetriesExhausted(count, maxRetries)
              THEN /\ authLog' = authLog \o << "delay", how >>
                   /\ authResult' = "false" /\ pc' = "initialized"
              ELSE /\ authLog' = authLog \o << "delay", how, "backoff" >>
                   /\ IF count < maxRetries
                        THEN authResult' = authResult /\ pc' = "login"
                        ELSE authResult' = "false" /\ pc' = "initialized"
  /\ UNCHANGED << missing, cookieFile, maxRetries, fallbackEnabled, loggedIn,
                  cluster, collector, collectVars, endVars, studyVars,
                  fallbackVars, organizerVars, mergeVars >>

\* if (!scraperInitialized && !this.config.fallback.enabled) throw
AbortNoFallback ==
  /\ pc = "initialized" /\ authResult = "false" /\ ~fallbackEnabled
  /\ pc' = "failed"
  /\ UNCHANGED << cluster, collector, authVars, collectVars, endVars, studyVars,
                  fallbackVars, organizerVars, mergeVars >>

\* collectTweets(this.scraper) is entered; getProfile answers.
CollectBegin ==
  /\ pc = "initialized" /\ ~(authResult = "false" /\ ~fallbackEnabled)
  /\ collector' = "primary" /\ pc' = "collect"
  /\ UNCHANGED << cluster, authVars, collectVars, endVars, studyVars,
                  fallbackVars, organizerVars, mergeVars >>

\* collectTweets is entered and getProfile (or reading profile.tweetsCount)
\* throws: collectTweets rethrows.
CollectProfileFails ==
  /\ pc = "initialized" /\ ~(authResult = "false" /\ ~fallbackEnabled)
  /\ collector' = "primary" /\ pc' = "failed"
  /\ UNCHANGED << cluster, authVars, collectVars, endVars, studyVars,
                  fallbackVars, organizerVars, mergeVars >>

\* The search sequence yields one more record of `universe`, up to `limit`
\* records in all.
Deliver(universe, limit) ==
  /\ pc = "collect" /\ Len(delivered) < limit
  /\ \E tweet \in universe :
       LET r == CollectOne(allTweets, stats, tweet, options) IN
         /\ delivered' = Append(delivered, tweet)
         /\ allTweets' = r.map
         /\ stats' = r.stats
  /\ UNCHANGED << pc, cluster, collector, authVars, options, rawFile,
                  rateLimitErrors, endVars, studyVars, fallbackVars,
                  organizerVars, mergeVars >>

\* The sequence is exhausted: collectTweets returns
\* Array.from(allTweets.values()).
SearchEnds ==
  /\ pc = "collect"
  /\ pc' = "collected"
  /\ UNCHANGED << cluster, collector, authVars, collectVars, endVars, studyVars,
                  fallbackVars, organizerVars, mergeVars >>

SearchErrors == {"rateLimit", "other"}

\* The sequence throws, a rate-limit error or another one:
\* catch (error) { } has an empty body, the iteration is over and
\* collectTweets returns Array.from(allTweets.values()).
SearchThrows ==
  /\ pc = "collect"
  /\ \E error \in SearchErrors :
       rateLimitErrors' = rateLimitErrors + (IF error = "rateLimit" THEN 1 ELSE 0)
  /\ pc' = "collected"
  /\ UNCHANGED << cluster, collector, authVars, options, delivered, allTweets,
                  stats, rawFile, endVars, studyVars, fallbackVars,
                  organizerVars, mergeVars >>

\* if (allTweets.length === 0) { Logger.warn(...); return; }
RunNoTweets ==
  /\ pc = "collected" /\ allTweets = <<>>
  /\ pc' = "done" /\ outcome' = "returned"
  /\ UNCHANGED << cluster, collector, authVars, collectVars, loggedOut,
                  cleanupRan, studyVars, fallbackVars, organizerVars,
                  mergeVars >>

\* saveTweets(allTweets), every write succeeding.
SaveTweetsOk ==
  /\ pc = "collected" /\ allTweets # <<>>
  /\ rawFile' = << MapValues(allTweets) >>
  /\ pc' = "saved"
  /\ UNCHANGED << cluster, collector, authVars, options, delivered, allTweets,
                  stats, rateLimitErrors, endVars, studyVars, fallbackVars,
                  organizerVars, mergeVars >>

\* saveTweets(allTweets), a write failing: the first one (the raw list is
\* not written), or a later one; saveTweets rethrows.
SaveTweetsFails ==
  /\ pc = "collected" /\ allTweets # <<>>
  /\ \E rawWritten \in BOOLEAN :
       rawFile' = IF rawWritten THEN << MapValues(allTweets) >> ELSE rawFile
  /\ pc' = "failed"
  /\ UNCHANGED << cluster, collector, authVars, options, delivered, allTweets,
                  stats, rateLimitErrors, endVars, studyVars, fallbackVars,
                  organizerVars, mergeVars >>

\* cleanup(): logout, then close the cluster if there is one; an error of
\* logout is caught at the end of cleanup, past the close.
Cleanup(logoutThrows) ==
  /\ cleanupRan' = TRUE
  /\ loggedOut' = ~logoutThrows
  /\ cluster' = IF ~logoutThrows /\ cluster = "open" THEN "closed" ELSE cluster

\* await this.cleanup(); return analytics;
CleanupAfterSuccess ==
  /\ pc = "saved"
  /\ \E logoutThrows \in BOOLEAN : Cleanup(logoutThrows)
  /\ pc' = "done" /\ outcome' = "returned"
  /\ UNCHANGED << collector, authVars, collectVars, studyVars, fallbackVars,
                  organizerVars, mergeVars >>

\* catch (error) { await this.cleanup(); throw error; }
CleanupAfterFailure ==
  /\ pc = "failed"
  /\ \E logoutThrows \in BOOLEAN : Cleanup(logoutThrows)
  /\ pc' = "done" /\ outcome' = "threw"
  /\ UNCHANGED << collector, authVars, collectVars, studyVars, fallbackVars,
                  organizerVars, mergeVars >>

Next ==
  \/ InitializeFallback
  \/ ValidateEnvironmentExit
  \/ ValidateEnvironmentOk
  \/ CookieRestore
  \/ CredentialsMissing
  \/ LoginLoopEnter
  \/ LoginSucceeds
  \/ LoginFails
  \/ AbortNoFallback
  \/ CollectBegin
  \/ CollectProfileFails
  \/ Deliver(RunRecords, MaxFeed)
  \/ SearchEnds
  \/ SearchThrows
  \/ RunNoTweets
  \/ SaveTweetsOk
  \/ SaveTweetsFails
  \/ CleanupAfterSuccess
  \/ CleanupAfterFailure

Spec == Init /\ [][Next]_vars

(***************************************************************************)
(* collectTweets and saveTweets on the full set of raw records: run()      *)
(* from the point where initializeScraper has returned true after its      *)
(* first login.                                                            *)
(***************************************************************************)
InitCollect ==
  /\ pc = "initialized"
  /\ missing = {} /\ cookieFile = "valid" /\ maxRetries = 1
  /\ fallbackEnabled = TRUE /\ loggedIn = TRUE /\ retryCount = 0
  /\ authLog = << "loadCookies", "delay", "loginOk", "saveCookies" >>
  /\ authResult = "true"
  /\ options \in DateOptions
  /\ CollectIdle /\ EndIdle /\ StudyIdle /\ FallbackIdle /\ OrganizerIdle
  /\ MergeIdle

NextCollect ==
  \/ CollectBegin
  \/ CollectProfileFails
  \/ Deliver(RawRecords, MaxFeed)
  \/ SearchEnds
  \/ SearchThrows
  \/ RunNoTweets
  \/ SaveTweetsOk
  \/ SaveTweetsFails
  \/ CleanupAfterSuccess
  \/ CleanupAfterFailure

SpecCollect == InitCollect /\ [][NextCollect]_vars

(***************************************************************************)
(* collectTweets on a longer search sequence of few different records: an  *)
(* accepted one, its repetition under the same id, a rejected one.         *)
(***************************************************************************)
StagnationRecords ==
  { Raw("1", "hello", Num(1700), Undef),
    Raw("2", "hello", Undef, Num(1650000)),
    Raw("2", "dup", Num(-1), Num(1700000)) }

NextStagnation ==
  \/ CollectBegin
  \/ CollectProfileFails
  \/ Deliver(StagnationRecords, MaxBatches)
  \/ SearchEnds
  \/ SearchThrows
  \/ RunNoTweets
  \/ SaveTweetsOk
  \/ SaveTweetsFails
  \/ CleanupAfterSuccess
  \/ CleanupAfterFailure

SpecStagnation == InitCollect /\ [][NextStagnation]_vars

(***************************************************************************)
(* processTweetData applied to a timestamp, and again to its own result.   *)
(***************************************************************************)
TimestampInputs ==
  (-2..MaxSmallT) \cup {999, 1000, 1700, 999999, 1000000, 1700000}

PipelineIdle ==
  /\ missing = {} /\ cookieFile = "absent" /\ maxRetries = 1
  /\ fallbackEnabled = TRUE /\ loggedIn = FALSE /\ retryCount = 0
  /\ authLog = <<>> /\ authResult = "pending"
  /\ options = [startDate |-> <<>>, endDate |-> <<>>]
  /\ CollectIdle /\ EndIdle /\ FallbackIdle /\ OrganizerIdle

InitNormalize ==
  /\ pc = "normalize"
  /\ nIn \in TimestampInputs
  /\ nOnce = <<>> /\ nTwice = <<>>
  /\ rlAttempt = 0 /\ rlDelay = 0 /\ rlWait = 0
  /\ PipelineIdle /\ MergeIdle

\* processTweetData({id, text, timestamp: nIn})
NormalizeOnce ==
  /\ pc = "normalize"
  /\ LET p == ProcessTweetData(Raw("1", "hello", Num(nIn), Undef), stats) IN
       /\ nOnce' = p.tweet
       /\ stats' = p.stats
       /\ pc' = IF p.tweet = <<>> THEN "rejected" ELSE "normalized"
  /\ UNCHANGED << cluster, collector, authVars, options, delivered, allTweets,
                  rawFile, rateLimitErrors, endVars, nIn, nTwice, rlAttempt,
                  rlDelay, rlWait, fallbackVars, organizerVars, mergeVars >>

\* processTweetData({id, text, timestamp: <the timestamp of the first result>})
NormalizeAgain ==
  /\ pc = "normalized"
  /\ LET p == ProcessTweetData(Raw("1", "hello", Num(nOnce[1].timestamp), Undef),
                               stats) IN
       /\ nTwice' = p.tweet
       /\ stats' = p.stats
  /\ pc' = "renormalized"
  /\ UNCHANGED << cluster, collector, authVars, options, delivered, allTweets,
                  rawFile, rateLimitErrors, endVars, nIn, nOnce, rlAttempt,
                  rlDelay, rlWait, fallbackVars, organizerVars, mergeVars >>

NextNormalize == NormalizeOnce \/ NormalizeAgain

SpecNormalize == InitNormalize /\ [][NextNormalize]_vars

(***************************************************************************)
(* handleRateLimit, called up to MaxHits times.                            *)
(***************************************************************************)
InitRateLimit ==
  /\ pc = "rateLimit"
  /\ StudyIdle /\ PipelineIdle /\ MergeIdle

\* handleRateLimit(retryCount): count the hit, compute the delay, sleep
\* randomDelay(delay, delay * 1.1).
HandleRateLimit ==
  /\ pc = "rateLimit" /\ stats.rateLimitHits < MaxHits
  /\ \E attempt \in 1..MaxAttempt, jitterDraw \in RandomDraws, gauss \in RandomDraws :
       /\ rlAttempt' = attempt
       /\ rlDelay' = RateLimitDelay(attempt, jitterDraw)
       /\ rlWait' = RandomDelayTenth(RateLimitDelay(attempt, jitterDraw), gauss)
  /\ stats' = [stats EXCEPT !.rateLimitHits = @ + 1]
  /\ UNCHANGED << pc, cluster, collector, authVars, options, delivered, allTweets,
                  rawFile, rateLimitErrors, endVars, nIn, nOnce, nTwice,
                  fallbackVars, organizerVars, mergeVars >>

NextRateLimit == HandleRateLimit

SpecRateLimit == InitRateLimit /\ [][NextRateLimit]_vars

(***************************************************************************)
(* collectWithFallback: the scroll loop of the browser task.               *)
(***************************************************************************)
\* The values a JS Set is asked about: a string, and an object created by
\* page.evaluate (ref is its identity, id its id property).
Str(s) == [type |-> "string", ref |-> 0, id |-> s]
Obj(ref, id) == [type |-> "object", ref |-> ref, id |-> id]

\* Set.prototype.has: some element is the same value
SetHas(set, value) == \E i \in DOMAIN set : set[i] = value

\* Set.prototype.add
SetAdd(set, value) == IF SetHas(set, value) THEN set ELSE Append(set, value)

\* for (const tweet of newTweets) { if (!tweets.has(tweet.id)) { tweets.add(tweet); ... } }
\* over the ids of the objects page.evaluate has just built
RECURSIVE AddScraped(_, _)
AddScraped(set, ids) ==
  IF ids = <<>> THEN set
  ELSE LET tweet == Obj(Len(set) + 1, Head(ids)) IN
    AddScraped(IF ~SetHas(set, Str(tweet.id)) THEN SetAdd(set, tweet) ELSE set,
               Tail(ids))

\* what one scroll cycle finds on the page: nothing, posts seen before,
\* posts seen before together with new ones
ScrapeResults == { <<>>, <<"1">>, <<"1", "2">>, <<"2", "3">> }

\* while (unchangedCount < 3 && Date.now() - sessionStartTime < sessionDuration)
FallbackLoopGuard == unchangedCount < 3 /\ elapsed < SessionTicks

InitFallback ==
  /\ pc = "fallback"
  /\ StudyIdle /\ PipelineIdle /\ MergeIdle

\* collectWithFallback up to the loop: the cluster is launched when there is
\* none, the task logs in and opens the search page.
FallbackBegin ==
  /\ pc = "fallback"
  /\ cluster' = IF cluster = "none" THEN "open" ELSE cluster
  /\ \E t \in 0..1 : elapsed' = t
  /\ pc' = "fallbackLoop"
  /\ UNCHANGED << collector, authVars, collectVars, endVars, studyVars, fbTweets,
                  lastTweetCount, unchangedCount, scraped, fallbackResult,
                  organizerVars, mergeVars >>

\* the login or the navigation throws: the task logs and rethrows
FallbackSetupThrows ==
  /\ pc = "fallback"
  /\ cluster' = IF cluster = "none" THEN "open" ELSE cluster
  /\ pc' = "fallbackFailed"
  /\ UNCHANGED << collector, authVars, collectVars, endVars, studyVars,
                  fallbackVars, organizerVars, mergeVars >>

\* one pass of the while loop: scroll, wait, scrape, add, compare sizes
FallbackCycle ==
  /\ pc = "fallbackLoop" /\ FallbackLoopGuard
  /\ \E newTweets \in ScrapeResults, dt \in 1..2 :
       LET added == AddScraped(fbTweets, newTweets) IN
         /\ fbTweets' = added
         /\ stats' = [stats EXCEPT !.fallbackCount = @ + Len(added) - Len(fbTweets)]
         /\ unchangedCount' = IF Len(added) = lastTweetCount
                                THEN unchangedCount + 1 ELSE 0
         /\ lastTweetCount' = IF Len(added) = lastTweetCount
                                THEN lastTweetCount ELSE Len(added)
         /\ scraped' = Append(scraped, newTweets)
         /\ elapsed' = elapsed + dt
  /\ UNCHANGED << pc, cluster, collector, authVars, options, delivered, allTweets,
                  rawFile, rateLimitErrors, endVars, studyVars, fallbackResult,
                  organizerVars, mergeVars >>

\* the loop is left: return Array.from(tweets)
FallbackReturn ==
  /\ pc = "fallbackLoop" /\ ~FallbackLoopGuard
  /\ fallbackResult' = << fbTweets >>
  /\ pc' = "fallbackDone"
  /\ UNCHANGED << cluster, collector, authVars, collectVars, endVars, studyVars,
                  fbTweets, lastTweetCount, unchangedCount, elapsed, scraped,
                  organizerVars, mergeVars >>

NextFallback ==
  \/ FallbackBegin
  \/ FallbackSetupThrows
  \/ FallbackCycle
  \/ FallbackReturn

SpecFallback == InitFallback /\ [][NextFallback]_vars

(***************************************************************************)
(* DataOrganizer: generateAnalytics, generateFinetuningData,               *)
(* generateSummary and saveTweets.  A text is the sequence of its          *)
(* whitespace-separated words.                                             *)
(***************************************************************************)
\* /(?:https?:\/\/|www\.)[^\s]+/g  and  /#[^\s#]+/g
UrlWords     == {"http://x", "www.x"}
HashtagWords == {"#tag"}

KeepWord(w) == w \notin UrlWords /\ w \notin HashtagWords

\* .replace(urls, '').replace(hashtags, '').replace(/\s+/g, ' ').trim()
CleanText(text) == SelectSeq(text, KeepWord)

ExportsRetweetsToo(tweet) == tweet.text # <<>> /\ tweet.timestamp # <<>>

\* (tweet) => !tweet.isRetweet && tweet.text && tweet.timestamp !== null
Exportable(tweet) ==
  ~tweet.isRetweet /\ tweet.text # <<>> /\ tweet.timestamp # <<>>

\* .map(clean) with null for an empty cleanText, then .filter(entry && text.length > 0)
RECURSIVE CleanEntries(_)
CleanEntries(list) ==
  IF list = <<>> THEN <<>>
  ELSE LET cleanText == CleanText(Head(list).text) IN
    (IF cleanText = <<>> THEN <<>> ELSE << [text |-> cleanText] >>)
      \o CleanEntries(Tail(list))

GenerateFinetuningData(tweets) == CleanEntries(SelectSeq(tweets, Exportable))

RECURSIVE Sum(_)
Sum(numbers) == IF numbers = <<>> THEN 0 ELSE Head(numbers) + Sum(Tail(numbers))

\* (sum / count).toFixed(2), as hundredths; 0 / 0 is NaN and prints "NaN"
\* (the sum over no tweet is 0)
ToFixed2(sum, count) ==
  IF count = 0 THEN NaN ELSE Num((sum * 200 + count) \div (2 * count))

\* Array.prototype.sort on [key, value] pairs, ascending by key and stable
RECURSIVE InsertByKey(_, _)
InsertByKey(sorted, pair) ==
  IF sorted = <<>> THEN << pair >>
  ELSE IF sorted[Len(sorted)].key <= pair.key THEN Append(sorted, pair)
  ELSE Append(InsertByKey(SubSeq(sorted, 1, Len(sorted) - 1), pair),
              sorted[Len(sorted)])

RECURSIVE SortByKey(_)
SortByKey(pairs) ==
  IF pairs = <<>> THEN <<>>
  ELSE InsertByKey(SortByKey(SubSeq(pairs, 1, Len(pairs) - 1)), pairs[Len(pairs)])

Values(pairs) == [i \in DOMAIN pairs |-> pairs[i].value]

\* .sort((a, b) => (b.likes || 0) - (a.likes || 0))
SortByLikes(tweets) ==
  Values(SortByKey([i \in DOMAIN tweets |-> [key |-> 0 - tweets[i].likes,
                                              value |-> tweets[i]]]))

\* .slice(0, n)
Slice(list, n) == SubSeq(list, 1, Min(n, Len(list)))

\* .map((t) => ({ id, text: t.text.slice(0, 100), likes, retweetCount, url }));
\* the texts of the model are shorter than 100 characters
TopEntry(t) ==
  [id |-> t.id, text |-> t.text, likes |-> t.likes,
   retweetCount |-> t.retweetCount, url |-> t.permanentUrl]

\* format(new Date(t), 'yyyy-MM-dd'): the day a timestamp falls on; a day is
\* 86.4 units of the model's clock
FormatDay(t) == [k |-> "day", v |-> (t * 10) \div 864]
NotAvailable == [k |-> "N/A", v |-> 0]

NotRetweet(t) == ~t.isRetweet
IsRetweet(t)  == t.isRetweet
IsReply(t)    == t.isReply
IsDirect(t)   == ~t.isReply /\ ~t.isRetweet
HasTimestamp(t) == t.timestamp # <<>>
WithImages(t) == t.photos > 0
WithVideos(t) == t.videos > 0
WithLinks(t)  == t.urls > 0
TextOnly(t)   == t.photos = 0 /\ t.videos = 0 /\ t.urls = 0

\* the return value of generateAnalytics for an empty list
ZeroAnalytics ==
  [totalTweets |-> 0, directTweets |-> 0, replies |-> 0, retweets |-> 0,
   engagement |-> [totalLikes |-> 0, totalRetweetCount |-> 0, totalReplies |-> 0,
                   averageLikes |-> Num(0), topTweets |-> <<>>],
   timeRange |-> [start |-> NotAvailable, end |-> NotAvailable],
   contentTypes |-> [withImages |-> 0, withVideos |-> 0, withLinks |-> 0,
                     textOnly |-> 0]]

\* the return value of generateAnalytics for a list with tweets in it
TweetAnalytics(tweets) ==
  LET validDates ==
        SortByKey([i \in DOMAIN SelectSeq(tweets, HasTimestamp) |->
                    [key |-> SelectSeq(tweets, HasTimestamp)[i].timestamp[1],
                     value |-> SelectSeq(tweets, HasTimestamp)[i].timestamp[1]]])
      tweetsForEngagement == SelectSeq(tweets, NotRetweet)
      likes == [i \in DOMAIN tweetsForEngagement |-> tweetsForEngagement[i].likes]
  IN
  [totalTweets |-> Len(tweets),
   directTweets |-> Len(SelectSeq(tweets, IsDirect)),
   replies |-> Len(SelectSeq(tweets, IsReply)),
   retweets |-> Len(SelectSeq(tweets, IsRetweet)),
   engagement |->
     [totalLikes |-> Sum(likes),
      totalRetweetCount |->
        Sum([i \in DOMAIN tweetsForEngagement |-> tweetsForEngagement[i].retweetCount]),
      totalReplies |->
        Sum([i \in DOMAIN tweetsForEngagement |-> tweetsForEngagement[i].replies]),
      averageLikes |-> ToFixed2(Sum(likes), Len(tweetsForEngagement)),
      topTweets |->
        LET top == Slice(SortByLikes(tweetsForEngagement), TopTweetsShown) IN
          [i \in DOMAIN top |-> TopEntry(top[i])]],
   timeRange |->
     [start |-> IF Len(validDates) > 0
                  THEN FormatDay(validDates[1].value) ELSE NotAvailable,
      end |-> IF Len(validDates) > 0
                THEN FormatDay(validDates[Len(validDates)].value) ELSE NotAvailable],
   contentTypes |->
     [withImages |-> Len(SelectSeq(tweets, WithImages)),
      withVideos |-> Len(SelectSeq(tweets, WithVideos)),
      withLinks |-> Len(SelectSeq(tweets, WithLinks)),
      textOnly |-> Len(SelectSeq(tweets, TextOnly))]]

GenerateAnalyticsNoEmptyCase(tweets) == TweetAnalytics(tweets)

\* generateAnalytics: if (tweets.length === 0) return { the zero state }
GenerateAnalytics(tweets) ==
  IF Len(tweets) = 0 THEN ZeroAnalytics ELSE TweetAnalytics(tweets)

\* generateSummary: the figures of the analytics the markdown shows
GenerateSummary(tweets, analytics) ==
  [totalTweets |-> analytics.totalTweets,
   timeRange |-> analytics.timeRange,
   directTweets |-> analytics.directTweets,
   replies |-> analytics.replies,
   retweets |-> analytics.retweets,
   contentTypes |-> analytics.contentTypes,
   totalLikes |-> analytics.engagement.totalLikes,
   totalRetweetCount |-> analytics.engagement.totalRetweetCount,
   totalReplies |-> analytics.engagement.totalReplies,
   averageLikes |-> analytics.engagement.averageLikes,
   topTweets |-> [i \in DOMAIN analytics.engagement.topTweets |->
                    [likes |-> analytics.engagement.topTweets[i].likes,
                     text |-> analytics.engagement.topTweets[i].text,
                     url |-> analytics.engagement.topTweets[i].url]]]

\* A tweet as processTweetData leaves it and raw/tweets.json stores it
\* (photos, videos and urls by their length; timestamp <<>> for null).
Tweet(id, text, timestamp, isRetweet, isReply, likes, retweetCount, replies, photos, videos, urls) ==
  [id |-> id, username |-> "a", text |-> text, timestamp |-> timestamp,
   isRetweet |-> isRetweet,
   isReply |-> isReply, likes |-> likes, retweetCount |-> retweetCount,
   replies |-> replies, photos |-> photos, videos |-> videos, urls |-> urls,
   permanentUrl |-> [status |-> id]]

\* An original tweet with a photo, a retweet, a reply that is only a
\* hashtag and a link, a tweet without a timestamp, a reply without text
\* that was retweeted often.
StoredTweets ==
  { Tweet("1", <<"hello">>, <<1700000>>, FALSE, FALSE, 3, 1, 0, 1, 0, 0),
    Tweet("2", <<"RT", "hi">>, <<1650000>>, TRUE, FALSE, 5, 2, 1, 0, 0, 0),
    Tweet("3", <<"#tag", "http://x">>, <<1800000>>, FALSE, TRUE, 0, 0, 2, 0, 0, 1),
    Tweet("4", <<"gm", "#tag">>, <<>>, FALSE, FALSE, 7, 0, 0, 0, 1, 0),
    Tweet("5", <<>>, <<1700000>>, FALSE, TRUE, 1, 4, 0, 0, 0, 0) }

\* the lists of up to n distinct elements of a set
DistinctLists(S, n) ==
  UNION { { list \in [1..m -> S] :
              \A i, j \in 1..m : i # j => list[i] # list[j] } : m \in 0..n }

\* the lists of up to n distinct stored tweets
ListsUpTo(n) == DistinctLists(StoredTweets, n)

InitOrganizer ==
  /\ pc = "organizer"
  /\ StudyIdle /\ PipelineIdle /\ MergeIdle

\* saveTweets(tweets): the five writes in order, the training export only
\* when it has entries; failAt is the write that fails (0: none), upon which
\* saveTweets logs and rethrows.  It is called for a fresh directory, and
\* once more for the same account and date.
SaveTweets ==
  /\ pc \in {"organizer", "organizerSaved"}
  /\ \E tweets \in ListsUpTo(MaxSaved), failAt \in 0..5 :
       LET analytics == GenerateAnalytics(tweets)
           data      == GenerateFinetuningData(tweets)
           Reached(k) == failAt = 0 \/ k <= failAt
           Written(k) == failAt = 0 \/ k < failAt
       IN
         /\ failAt = 4 => Len(data) > 0
         /\ rawFile' = IF Written(1) THEN << tweets >> ELSE rawFile
         /\ urlsFile' = IF Written(2)
                          THEN << [i \in DOMAIN tweets |-> tweets[i].permanentUrl] >>
                          ELSE urlsFile
         /\ statsFile' = IF Written(3) THEN << analytics >> ELSE statsFile
         /\ finetuningData' = IF Reached(4) THEN << data >> ELSE <<>>
         /\ finetuningFile' = IF Written(4) /\ Len(data) > 0
                                THEN << data >> ELSE finetuningFile
         /\ summaryFile' = IF Written(5)
                             THEN << GenerateSummary(tweets, analytics) >>
                             ELSE summaryFile
         /\ savedTweets' = << tweets >>
         /\ saveOutcome' = IF failAt = 0 THEN "returned" ELSE "threw"
  /\ pc' = IF pc = "organizer" THEN "organizerSaved" ELSE "organizerResaved"
  /\ UNCHANGED << cluster, collector, authVars, options, delivered, allTweets,
                  stats, rateLimitErrors, endVars, studyVars, fallbackVars,
                  mergeVars >>

NextOrganizer == SaveTweets

SpecOrganizer == InitOrganizer /\ [][NextOrganizer]_vars

(***************************************************************************)
(* createMergedCharacter over two source accounts.                         *)
(***************************************************************************)
SourceAccounts == << "a", "b" >>

\* What an account's latest raw/tweets.json may hold: tweets with a
\* timestamp, under the account's name; the accounts share ids.
AccountTweets(account) ==
  { [t EXCEPT !.username = account] : t \in { u \in StoredTweets : u.timestamp # <<>> } }

\* <<>> when the account has no dataset (getLatestDateForAccount returns
\* null and getTweetsForAccount returns []), else <<the list>>
DatasetsOf(account) ==
  { <<>> } \cup { << list >> : list \in DistinctLists(AccountTweets(account), MaxDataset) }

SortChoices == {"total", "likes", "retweets", "date"}

\* the keys of the comparator's switch (sortBy), larger first
RankKey(tweet, sortBy) ==
  CASE sortBy = "likes" -> tweet.likes
    [] sortBy = "retweets" -> tweet.retweetCount
    [] sortBy = "date" -> tweet.timestamp[1]
    [] OTHER -> tweet.likes + tweet.retweetCount

\* filteredTweets.sort((a, b) => key(b) - key(a))
SortForMerge(list, sortBy) ==
  Values(SortByKey([i \in DOMAIN list |-> [key |-> 0 - RankKey(list[i], sortBy),
                                            value |-> list[i]]]))

SliceUncapped(list, n) == list

\* const topTweets = sortedTweets.slice(0, tweetsPerAccount)
TopTweets(list, n) == Slice(list, n)

\* getTweetsForAccount, the optional filter, the sort and the slice
SelectTop(account, sets, opts) ==
  LET accountTweets == IF sets[account] = <<>> THEN <<>> ELSE sets[account][1]
      filteredTweets == IF opts.filterRetweets
                          THEN SelectSeq(accountTweets, NotRetweet)
                          ELSE accountTweets
  IN TopTweets(SortForMerge(filteredTweets, opts.sortBy), opts.tweetsPerAccount)

\* accountBreakdown[account] = (accountBreakdown[account] || 0) + 1
CountFor(breakdown, account) ==
  [a \in DOMAIN breakdown \cup {account} |->
     IF a = account
       THEN (IF account \in DOMAIN breakdown THEN breakdown[account] ELSE 0) + 1
       ELSE breakdown[a]]

\* the body of topTweets.forEach for one tweet, on mergedStats
CountAdmitted(st, account, tweet) ==
  [totalTweets |-> st.totalTweets + 1,
   accountBreakdown |-> CountFor(st.accountBreakdown, account),
   dateRange |->
     [oldest |-> IF st.dateRange.oldest = <<>>
                      \/ tweet.timestamp[1] < st.dateRange.oldest[1]
                   THEN tweet.timestamp ELSE st.dateRange.oldest,
      newest |-> IF st.dateRange.newest = <<>>
                      \/ tweet.timestamp[1] > st.dateRange.newest[1]
                   THEN tweet.timestamp ELSE st.dateRange.newest]]

\* topTweets.forEach(tweet => { mergedTweets.set(tweet.id, tweet); ... })
RECURSIVE Admit(_, _, _)
Admit(merged, list, account) ==
  IF list = <<>> THEN merged
  ELSE Admit([map |-> MapSet(merged.map, Head(list).id, Head(list)),
              stats |-> CountAdmitted(merged.stats, account, Head(list))],
             Tail(list), account)

\* t.text.includes('http')
IncludesHttp(t) == \E n \in DOMAIN t.text : t.text[n] \in {"http://x"}
MergedWithVideos(t) == t.videos > 0
MergedTextOnly(t) == t.videos = 0 /\ ~IncludesHttp(t)

\* generateStatsFromMergedTweets for a list with tweets in it: every tweet
\* counts for the engagement, t.replyCount, t.images and t.url are
\* properties no stored tweet has
MergedAnalytics(tweets) ==
  LET dates == SortByKey([i \in DOMAIN tweets |->
                           [key |-> tweets[i].timestamp[1],
                            value |-> tweets[i].timestamp[1]]])
      likes == [i \in DOMAIN tweets |-> tweets[i].likes]
      top == Slice(SortByLikes(tweets), TopTweetsShown)
  IN
  [totalTweets |-> Len(tweets),
   directTweets |-> Len(SelectSeq(tweets, IsDirect)),
   replies |-> Len(SelectSeq(tweets, IsReply)),
   retweets |-> Len(SelectSeq(tweets, IsRetweet)),
   engagement |->
     [totalLikes |-> Sum(likes),
      totalRetweetCount |-> Sum([i \in DOMAIN tweets |-> tweets[i].retweetCount]),
      totalReplies |-> 0,
      averageLikes |-> ToFixed2(Sum(likes), Len(tweets)),
      topTweets |-> [i \in DOMAIN top |->
                       [TopEntry(top[i]) EXCEPT !.url = [status |-> "undefined"]]]],
   timeRange |-> [start |-> FormatDay(dates[1].value),
                  end |-> FormatDay(dates[Len(dates)].value)],
   contentTypes |->
     [withImages |-> 0,
      withVideos |-> Len(SelectSeq(tweets, MergedWithVideos)),
      withLinks |-> Len(SelectSeq(tweets, IncludesHttp)),
      textOnly |-> Len(SelectSeq(tweets, MergedTextOnly))]]

\* The constructor's DataOrganizer creates the directories of
\* <username.toLowerCase()>/<today>; createMergedCharacter writes under
\* <this.username>/<targetDate> and creates nothing (names compared as the
\* file system does where case matters).
DirectoriesCreated(t) == t.lowercase /\ t.today

\* the target of the merge command: a new character, constructed by main
Targets == [lowercase : BOOLEAN, today : BOOLEAN]

\* the state a merge starts in, whoever chose the options
MergeStart ==
  /\ datasets \in { sets \in [{"a", "b"} -> DatasetsOf("a") \cup DatasetsOf("b")] :
                      \A account \in {"a", "b"} : sets[account] \in DatasetsOf(account) }
  /\ mergeIndex = 0 /\ selected = <<>> /\ mergedTweets = <<>>
  /\ mergedStats = InitMergedStats /\ mergedFiles = NoFiles
  /\ mergeOutcome = "running"
  /\ StudyIdle /\ PipelineIdle

\* a call of createMergedCharacter on some pipeline object: its target's
\* directories for targetDate are there or they are not
InitMerge ==
  /\ pc = "merge"
  /\ answers = <<>> /\ target = <<>>
  /\ targetDirs \in BOOLEAN
  /\ mergeOptions \in [tweetsPerAccount : 0..MaxCap, filterRetweets : BOOLEAN,
                        sortBy : SortChoices]
  /\ MergeStart

\* if (validDates.length === 0) throw new Error('No valid dates found ...')
MergeNoDates ==
  /\ pc = "merge" /\ \A account \in DOMAIN datasets : datasets[account] = <<>>
  /\ pc' = "mergeDone" /\ mergeOutcome' = "threw"
  /\ UNCHANGED << cluster, collector, authVars, collectVars, endVars, studyVars,
                  fallbackVars, organizerVars, answers, target, datasets, mergeOptions, targetDirs,
                  mergeIndex, selected, mergedTweets, mergedStats, mergedFiles >>

\* targetDate is the latest date of the source accounts
MergeBegin ==
  /\ pc = "merge" /\ \E account \in DOMAIN datasets : datasets[account] # <<>>
  /\ pc' = "mergeLoop"
  /\ UNCHANGED << cluster, collector, authVars, collectVars, endVars, studyVars,
                  fallbackVars, organizerVars, mergeVars >>

\* one pass of  for (const account of sourceAccounts) { ... }
MergeAccount ==
  /\ pc = "mergeLoop" /\ mergeIndex < Len(SourceAccounts)
  /\ LET account == SourceAccounts[mergeIndex + 1]
         topTweets == SelectTop(account, datasets, mergeOptions)
         merged == Admit([map |-> mergedTweets, stats |-> mergedStats],
                         topTweets, account)
     IN
       /\ selected' = Append(selected, topTweets)
       /\ mergedTweets' = merged.map
       /\ mergedStats' = merged.stats
  /\ mergeIndex' = mergeIndex + 1
  /\ UNCHANGED << pc, cluster, collector, authVars, collectVars, endVars,
                  studyVars, fallbackVars, organizerVars, answers, target, datasets,
                  mergeOptions, targetDirs, mergedFiles, mergeOutcome >>

\* the provenance record written to raw/merge_stats.json and returned
MergeStats ==
  [sourceAccounts |-> SourceAccounts,
   tweetsPerAccount |-> mergeOptions.tweetsPerAccount,
   totalTweets |-> mergedStats.totalTweets,
   accountBreakdown |-> mergedStats.accountBreakdown,
   dateRange |-> [start |-> mergedStats.dateRange.oldest,
                  end |-> mergedStats.dateRange.newest]]

\* What combineCharacterStats saves: the stats files of the sources carry no
\* engagement.total, topics, sentiment, posting_times, hashtags or mentions,
\* so the combined record keeps its initial values.
CombinedStats == [engagement |-> [total |-> 0, average |-> 0]]

\* After the loop: combineCharacterStats writes analytics/stats.json of the
\* target (nothing creates the directory: the write throws when it is not
\* there), then raw/tweets.json, the fresh stats (over an empty list
\* new Date(Infinity).toISOString() throws), the training file in the order
\* generateStatsFromMergedTweets has sorted the array into, merge_stats.json.
MergePersist ==
  /\ pc = "mergeLoop" /\ mergeIndex = Len(SourceAccounts)
  /\ LET mergedArray == MapValues(mergedTweets)
         sortedArray == SortByLikes(mergedArray)
     IN
       IF ~targetDirs
         THEN /\ mergeOutcome' = "threw"
              /\ UNCHANGED mergedFiles
         ELSE IF mergedArray = <<>>
           THEN /\ mergeOutcome' = "threw"
                /\ mergedFiles' = [mergedFiles EXCEPT
                                     !.tweets = << mergedArray >>,
                                     !.stats = << CombinedStats >>]
           ELSE /\ mergeOutcome' = "returned"
                /\ mergedFiles' =
                     [tweets |-> << mergedArray >>,
                      stats |-> << MergedAnalytics(mergedArray) >>,
                      finetuning |-> << [i \in DOMAIN sortedArray |->
                                           [text |-> sortedArray[i].text]] >>,
                      mergeStats |-> << MergeStats >>]
  /\ pc' = "mergeDone"
  /\ UNCHANGED << cluster, collector, authVars, collectVars, endVars, studyVars,
                  fallbackVars, organizerVars, answers, target, datasets, mergeOptions, targetDirs,
                  mergeIndex, selected, mergedTweets, mergedStats >>

NextMerge ==
  \/ MergeNoDates
  \/ MergeBegin
  \/ MergeAccount
  \/ MergePersist

SpecMerge == InitMerge /\ [][NextMerge]_vars

(***************************************************************************)
(* The merge command: the prompts, then createMergedCharacter.             *)
(***************************************************************************)

\* the choices of the prompt 'How should tweets be ranked?'
RankingChoices ==
  {"Total engagement (likes + retweets)", "Likes only", "Retweets only"}

\* what inquirer.prompt can resolve with
Answers ==
  [tweetsPerAccount : 0..MaxCap, excludeRetweets : BOOLEAN,
   rankingMethod : RankingChoices]

\* the options main hands to createMergedCharacter
OptionsFromAnswers(a) ==
  [tweetsPerAccount |-> a.tweetsPerAccount,
   filterRetweets |-> ~a.excludeRetweets,
   sortBy |-> a.rankingMethod]

\* main: const pipeline = new TwitterPipeline(newCharacter)
InitMergeCommand ==
  /\ pc = "mergeCommand"
  /\ answers = <<>> /\ mergeOptions = <<>>
  /\ target \in Targets
  /\ targetDirs = DirectoriesCreated(target)
  /\ MergeStart

\* main: const options = await promptForMergeOptions(...), then the call
MergeCommand ==
  /\ pc = "mergeCommand"
  /\ \E a \in Answers :
       /\ answers' = << a >>
       /\ mergeOptions' = OptionsFromAnswers(a)
  /\ pc' = "merge"
  /\ UNCHANGED << cluster, collector, authVars, collectVars, endVars, studyVars,
                  fallbackVars, organizerVars, target, datasets, targetDirs,
                  mergeIndex, selected, mergedTweets, mergedStats, mergedFiles,
                  mergeOutcome >>

NextMergeCommand ==
  \/ MergeCommand
  \/ MergeNoDates
  \/ MergeBegin
  \/ MergeAccount
  \/ MergePersist

SpecMergeCommand == InitMergeCommand /\ [][NextMergeCommand]_vars

(***************************************************************************)
(* Properties.                                                             *)
(***************************************************************************)
NoDuplicateIds(list) ==
  \A i, j \in DOMAIN list : i # j => list[i].id # list[j].id

\* processTweetData's answer for a raw record (it does not depend on stats)
Normalized(raw) == ProcessTweetData(raw, InitStats).tweet

Accepted(raw) == Normalized(raw) # <<>>

\* The lists the properties speak of: the collection as it stands (what
\* collectTweets returns) and the raw tweet file when it has been written.
Collections ==
  { MapValues(allTweets) } \cup (IF rawFile = <<>> THEN {} ELSE { rawFile[1] })

\* C1: whatever raw records the search sequence delivers (any ids, any
\* repetitions, with or without a date range), the list collectTweets returns
\* and the list saveTweets writes to the raw tweet file hold no two entries
\* with the same id.
C1_NoDuplicateIds == \A list \in Collections : NoDuplicateIds(list)

\* C1 witness: an id was delivered twice in accepted records and the raw
\* tweet file has been written.
C1_Witness ==
  /\ rawFile # <<>>
  /\ \E i, j \in DOMAIN delivered :
       i < j /\ delivered[i].id = delivered[j].id
             /\ Accepted(delivered[i]) /\ Accepted(delivered[j])

\* A raw record without an id, or whose timestamp cannot be resolved (no
\* usable numeric timestamp and no parsed date), or resolves to NaN or to a
\* value <= 0.
BadRecord(raw) ==
  \/ raw.id = NoId
  \/ raw.timestamp.k = "num" /\ raw.timestamp.v < 0
  \/ /\ raw.timestamp.k # "num" \/ raw.timestamp.v = 0
     /\ raw.timeParsed.k # "num" \/ raw.timeParsed.v <= 0

\* C2: processTweetData rejects (null) every raw record that has no id or
\* whose timestamp is unresolvable, NaN or <= 0, and no such record is in
\* the dedup map, the persisted raw list or the list handed to analytics:
\* every stored tweet is the normalization of a delivered record that is
\* none of these.
C2_BadRecordsRejected ==
  /\ \A raw \in RawRecords : BadRecord(raw) => ProcessTweetData(raw, stats).tweet = <<>>
  /\ \A i \in DOMAIN delivered :
       BadRecord(delivered[i]) => ProcessTweetData(delivered[i], stats).tweet = <<>>
  /\ \A list \in Collections : \A n \in DOMAIN list :
       /\ list[n].id # NoId /\ list[n].timestamp > 0
       /\ \E i \in DOMAIN delivered :
            ~BadRecord(delivered[i]) /\ Normalized(delivered[i]) = << list[n] >>

\* C2 witness: a record without an id and a record without a resolvable
\* timestamp were delivered, and a non-empty raw list was persisted.
C2_Witness ==
  /\ rawFile # <<>>
  /\ \E i, j \in DOMAIN delivered :
       /\ delivered[i].id = NoId
       /\ delivered[j].id # NoId /\ BadRecord(delivered[j])

\* the entries of a list with a given id
WithId(list, id) == { n \in DOMAIN list : list[n].id = id }

\* the delivered accepted records with a given id, by position
AcceptedAt(id) ==
  { i \in DOMAIN delivered : delivered[i].id = id /\ Accepted(delivered[i]) }

\* those of them that pass the date filter of collectTweets
AdmittedAt(id) ==
  { i \in AcceptedAt(id) :
      DateFilterOn(options) => InDateRange(Normalized(delivered[i])[1].timestamp, options) }

First(S) == CHOOSE i \in S : \A j \in S : i <= j

\* C3 as claimed: when two accepted raw records with the same id have been
\* delivered, the collected and the persisted set hold exactly one record
\* for that id, and it is the first one delivered.
C3_FirstDeliveredWins ==
  \A id \in { delivered[i].id : i \in DOMAIN delivered } :
    Cardinality(AcceptedAt(id)) >= 2 =>
      \A list \in Collections :
        /\ Cardinality(WithId(list, id)) = 1
        /\ \A n \in WithId(list, id) :
             << list[n] >> = Normalized(delivered[First(AcceptedAt(id))])

\* C3 as amended: the collected and the persisted set hold, for an id, the
\* first delivered accepted record that passes the date filter (without a
\* date range: the first delivered accepted record), exactly once, and no
\* record for an id of which no delivered record passes.
C3_FirstAdmittedWins ==
  \A id \in { delivered[i].id : i \in DOMAIN delivered } :
    \A list \in Collections :
      IF AdmittedAt(id) = {}
        THEN WithId(list, id) = {}
        ELSE /\ Cardinality(WithId(list, id)) = 1
             /\ \A n \in WithId(list, id) :
                  << list[n] >> = Normalized(delivered[First(AdmittedAt(id))])

\* C3 witness: two accepted records with the same id and different content
\* were delivered, the later one is the first that passes the date filter,
\* and the raw list holding that id has been persisted.
C3_Witness ==
  /\ rawFile # <<>>
  /\ \E id \in { delivered[i].id : i \in DOMAIN delivered } :
       /\ Cardinality(AcceptedAt(id)) >= 2
       /\ AdmittedAt(id) # {}
       /\ First(AdmittedAt(id)) # First(AcceptedAt(id))
       /\ WithId(rawFile[1], id) # {}

\* C4: normalization is idempotent for every timestamp t: the millisecond
\* value processTweetData produces for t, fed back in as a raw timestamp,
\* yields the same millisecond value.
C4_NormalizeIdempotent ==
  pc = "renormalized" => nTwice # <<>> /\ nTwice[1].timestamp = nOnce[1].timestamp

\* C5: on every exit path of run (it returned or it threw), cleanup has been
\* executed before run ended.
C5_CleanupOnEveryExit == outcome \in {"returned", "threw"} => cleanupRan

\* C6: when initializeScraper returned false and fallback is enabled, run
\* collects through the fallback collector and does not drive the primary
\* search capability.
C6_FallbackWhenAuthFails ==
  (authResult = "false" /\ fallbackEnabled) =>
     /\ collector # "primary"
     /\ pc \in {"collect", "collected", "saved"} => collector = "fallback"

\* C7: with a cookie file of a live session on disk (not written by this
\* very run), initializeScraper never gets to the credential login: it
\* calls login zero times and does not return false.
C7_CookieRestoreFirst ==
  (cookieFile = "valid" /\ \A i \in DOMAIN authLog : authLog[i] # "saveCookies") =>
     /\ pc \notin {"credentials", "login"}
     /\ LoginCalls(authLog) = 0
     /\ authResult # "false"

Backoffs(log) == Cardinality({i \in DOMAIN log : log[i] = "backoff"})

\* C8: whatever each login attempt does (throws, or leaves the session not
\* logged in), initializeScraper calls login at most maxRetries times,
\* sleeps a backoff only between two consecutive attempts (after a failed
\* attempt that another attempt follows), returns false after maxRetries
\* failed attempts, and returns true at the first attempt after which
\* isLoggedIn is true.
C8_LoginRetriesBounded ==
  /\ LoginCalls(authLog) <= maxRetries
  /\ pc = "login" => LoginCalls(authLog) < maxRetries
  /\ \A i \in DOMAIN authLog : authLog[i] = "backoff" =>
       /\ i > 1 /\ authLog[i - 1] \in {"loginThrew", "loginRefused"}
       /\ IF i = Len(authLog)
            THEN pc = "login" /\ authResult = "pending"
            ELSE i + 2 <= Len(authLog) /\ authLog[i + 1] = "delay"
                                       /\ authLog[i + 2] \in LoginEvents
  /\ authResult # "pending" /\ LoginCalls(authLog) > 0 =>
       Backoffs(authLog) = LoginCalls(authLog) - 1
  /\ authResult = "false" /\ ~CredentialsIncomplete(missing) =>
       /\ LoginCalls(authLog) = maxRetries
       /\ \A i \in DOMAIN authLog : authLog[i] # "loginOk"
  /\ authResult = "true" =>
       /\ Cardinality({i \in DOMAIN authLog : authLog[i] = "loginOk"}) = 1
       /\ authLog[Len(authLog) - 1] = "loginOk"

\* C8 witness: initializeScraper has returned false after maxRetries >= 2
\* failed login attempts.
C8_Witness ==
  /\ authResult = "false" /\ maxRetries >= 2
  /\ LoginCalls(authLog) = maxRetries

\* C9: with any of username, password or verification email missing, no
\* login attempt is made, no collection is started, and the run does not
\* end otherwise than failed.
C9_MissingCredentialIsFatal ==
  missing # {} =>
     /\ LoginCalls(authLog) = 0
     /\ collector = "none"
     /\ outcome # "returned"

\* C10: for every attempt >= 1 the time handleRateLimit waits is at least
\* the raw delay 60000 * 2^(attempt-1) clamped to the cap, and never exceeds
\* the 15-minute cap of 900000 ms.
C10_WaitWithinCap ==
  rlAttempt >= 1 =>
     /\ rlWait >= Min(ExponentialDelay(rlAttempt), MaxDelayMs)
     /\ rlWait <= MaxDelayMs

\* C11: every rate-limit error the search sequence raises during primary
\* collection is handled by handleRateLimit, which counts it: at any time
\* stats.rateLimitHits equals the number of rate-limit errors raised so far.
C11_RateLimitErrorsCounted == stats.rateLimitHits = rateLimitErrors

\* the dedup map of collectTweets after the first k delivered records
RECURSIVE CollectedAfter(_)
CollectedAfter(k) ==
  IF k = 0 THEN <<>>
  ELSE CollectOne(CollectedAfter(k - 1), InitStats, delivered[k], options).map

\* the k-th delivery (a batch of one record) added no record
Stagnant(k) == CollectedAfter(k) = CollectedAfter(k - 1)

\* C12: collectTweets stops consuming the search sequence after three
\* consecutive batches that yield no newly accepted record (or at maxTweets
\* records, or when the sequence is exhausted): no record is consumed after
\* three consecutive deliveries that added nothing.
C12_StopsWhenStagnant ==
  \A k \in DOMAIN delivered :
    k >= 4 => ~(Stagnant(k - 3) /\ Stagnant(k - 2) /\ Stagnant(k - 1))

\* start <= t <= end for the configured range
WithinBounds(t) == options.startDate[1] <= t /\ t <= options.endDate[1]

\* C13: with a date range configured, every tweet collectTweets returns (and
\* saveTweets persists) has start <= timestamp <= end, both ends included,
\* and every accepted record whose id was not in the collection when it was
\* delivered and whose timestamp lies in [start, end] is in the collection.
C13_DateRangeInclusive ==
  DateFilterOn(options) =>
    /\ \A list \in Collections : \A n \in DOMAIN list : WithinBounds(list[n].timestamp)
    /\ \A i \in DOMAIN delivered :
         ( /\ Accepted(delivered[i])
           /\ ~MapHas(CollectedAfter(i - 1), MapKey(delivered[i]))
           /\ WithinBounds(Normalized(delivered[i])[1].timestamp) ) =>
         \A list \in Collections :
           \E n \in DOMAIN list : << list[n] >> = Normalized(delivered[i])

\* C13 witness: with a date range configured, a record dated exactly at the
\* start, one dated exactly at the end and an accepted one outside the range
\* were delivered, and the raw list has been persisted.
C13_Witness ==
  /\ DateFilterOn(options) /\ rawFile # <<>>
  /\ \E i, j, k \in DOMAIN delivered :
       /\ Accepted(delivered[i]) /\ Accepted(delivered[j]) /\ Accepted(delivered[k])
       /\ Normalized(delivered[i])[1].timestamp = options.startDate[1]
       /\ Normalized(delivered[j])[1].timestamp = options.endDate[1]
       /\ ~WithinBounds(Normalized(delivered[k])[1].timestamp)

\* the ids scraped in the cycles before the k-th
ScrapedBefore(k) ==
  UNION { { scraped[j][n] : n \in DOMAIN scraped[j] } : j \in 1..(k - 1) }

\* the k-th cycle produced no id that was not collected before
StaleCycle(k) == \A n \in DOMAIN scraped[k] : scraped[k][n] \in ScrapedBefore(k)

\* C14: the fallback scroll loop stops when three consecutive cycles have
\* produced no new distinct id (or when the session duration has elapsed):
\* no cycle runs after three consecutive cycles that only re-scraped ids
\* already collected, and none starts once sessionDuration has elapsed.
C14_FallbackStopsWhenStale ==
  /\ \A k \in DOMAIN scraped :
       k >= 4 => ~(StaleCycle(k - 3) /\ StaleCycle(k - 2) /\ StaleCycle(k - 1))
  /\ elapsed <= SessionTicks + 1

\* C15: the sequence collectWithFallback returns holds no two entries with
\* the same id, and stats.fallbackCount is the number of distinct ids
\* collected.
C15_FallbackDistinct ==
  fallbackResult # <<>> =>
    /\ NoDuplicateIds(fallbackResult[1])
    /\ stats.fallbackCount = Cardinality(ScrapedBefore(Len(scraped) + 1))

\* C16: when saveTweets has completed for an account and date that held an
\* earlier dataset, every artifact (raw list, urls, analytics, training
\* export, summary) is derived from the tweets of the latest call alone,
\* also when the latest run yields no training entry.
C16_ArtifactsFromLatestCall ==
  (pc = "organizerResaved" /\ saveOutcome = "returned") =>
     /\ rawFile = savedTweets
     /\ Len(urlsFile[1]) = Len(savedTweets[1])
     /\ \A i \in DOMAIN urlsFile[1] : urlsFile[1][i] = savedTweets[1][i].permanentUrl
     /\ statsFile[1].totalTweets = Len(savedTweets[1])
     /\ summaryFile[1].totalTweets = Len(savedTweets[1])
     /\ \A entries \in {finetuningFile[i] : i \in DOMAIN finetuningFile} :
          \A n \in DOMAIN entries :
            \E i \in DOMAIN savedTweets[1] :
              /\ ~savedTweets[1][i].isRetweet
              /\ entries[n].text = CleanText(savedTweets[1][i].text)

\* the positions of the retweets in a list
Retweets(list) == { i \in DOMAIN list : list[i].isRetweet }

\* C17: every tweet with isRetweet set is absent from the training export
\* (no entry carries its text), present in the persisted raw list and
\* counted in the analytics' retweets; every training entry is the cleaned,
\* non-empty text of a non-retweet of the list, in the order of the list.
C17_RetweetsNotExported ==
  saveOutcome = "returned" =>
    LET tweets == savedTweets[1]
        export == finetuningData[1]
    IN
      /\ \A i \in Retweets(tweets) :
           /\ \E n \in DOMAIN rawFile[1] : rawFile[1][n] = tweets[i]
           /\ \A n \in DOMAIN export : export[n].text # CleanText(tweets[i].text)
      /\ statsFile[1].retweets = Cardinality(Retweets(tweets))
      /\ Len(export) <= Len(tweets) - Cardinality(Retweets(tweets))
      /\ \A n \in DOMAIN export :
           /\ export[n].text # <<>>
           /\ \E i \in DOMAIN tweets \ Retweets(tweets) :
                export[n].text = CleanText(tweets[i].text)
      /\ finetuningData[1] # <<>> => finetuningFile = finetuningData

\* C17 witness: saveTweets has returned for a list with a retweet and a
\* non-retweet, and the training export has an entry.
C17_Witness ==
  /\ saveOutcome = "returned"
  /\ Retweets(savedTweets[1]) # {}
  /\ finetuningData[1] # <<>>
  /\ finetuningFile = finetuningData

\* C18: for an empty list generateAnalytics returns the zero state:
\* totalTweets 0, averageLikes "0.00", timeRange N/A to N/A, every count
\* zero and no top tweet.
C18_EmptyAnalytics ==
  (saveOutcome = "returned" /\ savedTweets[1] = <<>>) =>
    LET a == statsFile[1] IN
      /\ a.totalTweets = 0 /\ a.directTweets = 0 /\ a.replies = 0 /\ a.retweets = 0
      /\ a.engagement.totalLikes = 0 /\ a.engagement.totalRetweetCount = 0
      /\ a.engagement.totalReplies = 0
      /\ a.engagement.averageLikes = Num(0)
      /\ a.engagement.topTweets = <<>>
      /\ a.timeRange.start.k = "N/A" /\ a.timeRange.end.k = "N/A"
      /\ a.contentTypes = [withImages |-> 0, withVideos |-> 0, withLinks |-> 0,
                           textOnly |-> 0]

\* C18 witness: saveTweets has returned for an empty list, over an earlier
\* dataset that was not empty.
C18_Witness ==
  /\ pc = "organizerResaved" /\ saveOutcome = "returned"
  /\ savedTweets[1] = <<>> /\ statsFile # <<>>
  /\ finetuningFile # <<>>

\* C19: averageLikes is defined for every list: the total likes of the
\* non-retweets divided by their number, and "0.00" when there is no
\* non-retweet, a non-empty list of retweets only included.
C19_AverageLikesDefined ==
  saveOutcome = "returned" =>
    LET tweets == savedTweets[1]
        counted == DOMAIN tweets \ Retweets(tweets)
        average == statsFile[1].engagement.averageLikes
    IN
      /\ average.k = "num"
      /\ counted = {} => average = Num(0)
      /\ counted # {} =>
           average = ToFixed2(statsFile[1].engagement.totalLikes, Cardinality(counted))

\* C20: with tweetsPerAccount = k over n source accounts, each account
\* contributes at most k tweets: the tweets selected from an account, its
\* count in accountBreakdown and the per-account share of the tweets
\* admitted before dedup (mergedStats.totalTweets <= n * k) are all
\* bounded by k.
C20_PerAccountCap ==
  LET k == mergeOptions.tweetsPerAccount IN
    pc \in {"mergeLoop", "mergeDone"} =>
      /\ \A i \in DOMAIN selected : Len(selected[i]) <= k
      /\ \A account \in DOMAIN mergedStats.accountBreakdown :
           mergedStats.accountBreakdown[account] <= k
      /\ mergedStats.totalTweets <= mergeIndex * k
      /\ mergedStats.totalTweets = Sum([i \in DOMAIN selected |-> Len(selected[i])])
      /\ \A n \in DOMAIN mergedFiles.mergeStats :
           LET provenance == mergedFiles.mergeStats[n] IN
             /\ provenance.totalTweets <= Len(SourceAccounts) * k
             /\ \A account \in DOMAIN provenance.accountBreakdown :
                  provenance.accountBreakdown[account] <= k

\* C20 witness: a merge with k >= 1 has returned, both accounts held more
\* than k eligible tweets and each contributed k.
C20_Witness ==
  /\ pc = "mergeDone" /\ mergeOutcome = "returned"
  /\ mergeOptions.tweetsPerAccount >= 1
  /\ \A account \in {"a", "b"} :
       /\ datasets[account] # <<>>
       /\ Len(SelectSeq(datasets[account][1], NotRetweet)) > mergeOptions.tweetsPerAccount
       /\ account \in DOMAIN mergedStats.accountBreakdown
       /\ mergedStats.accountBreakdown[account] = mergeOptions.tweetsPerAccount

\* the key a choice of the ranking prompt names
ChosenKey(tweet, rankingMethod) ==
  CASE rankingMethod = "Likes only" -> tweet.likes
    [] rankingMethod = "Retweets only" -> tweet.retweetCount
    [] OTHER -> tweet.likes + tweet.retweetCount

\* the tweets of an account the merge took as eligible
EligibleTweets(account) ==
  LET accountTweets == IF datasets[account] = <<>> THEN <<>> ELSE datasets[account][1]
  IN IF mergeOptions.filterRetweets
       THEN SelectSeq(accountTweets, NotRetweet)
       ELSE accountTweets

\* C21: for each choice of the ranking prompt, the tweets selected from an
\* account are the top tweetsPerAccount by the chosen key: in non-increasing
\* order of that key, and no eligible tweet left out has a strictly higher
\* key than a selected one.
C21_RankedByChoice ==
  answers # <<>> =>
    \A i \in DOMAIN selected :
      LET top == selected[i]
          eligible == EligibleTweets(SourceAccounts[i])
          method == answers[1].rankingMethod
      IN
        /\ \A n \in 1..(Len(top) - 1) :
             ChosenKey(top[n], method) >= ChosenKey(top[n + 1], method)
        /\ \A m \in DOMAIN eligible : \A n \in DOMAIN top :
             (\A j \in DOMAIN top : top[j].id # eligible[m].id) =>
               ChosenKey(eligible[m], method) <= ChosenKey(top[n], method)

\* C22: when the user chooses to exclude retweets the merge result holds no
\* retweet, and when the user does not, retweets stay eligible: the
\* selection of each account is the one made with the filter as chosen.
C22_ExcludeRetweetsHonoured ==
  answers # <<>> =>
    LET chosen == [mergeOptions EXCEPT !.filterRetweets = answers[1].excludeRetweets]
    IN
      /\ \A i \in DOMAIN selected :
           selected[i] = SelectTop(SourceAccounts[i], datasets, chosen)
      /\ answers[1].excludeRetweets =>
           /\ \A n \in DOMAIN mergedTweets : ~IsRetweet(mergedTweets[n].value)
           /\ \A f \in DOMAIN mergedFiles.tweets :
                \A n \in DOMAIN mergedFiles.tweets[f] :
                  ~IsRetweet(mergedFiles.tweets[f][n])

\* the ids of the tweets selected from the i-th source account
SelectedIds(i) == { selected[i][n].id : n \in DOMAIN selected[i] }

\* C23: when the same tweet id is selected from two source accounts, the
\* merged collection holds exactly one record for that id, and it is the
\* record of the account that comes first in sourceAccounts.
C23_FirstAccountWins ==
  \A i \in DOMAIN selected : \A j \in DOMAIN selected :
    \A m \in DOMAIN selected[i] :
      (/\ i < j
       /\ selected[i][m].id \in SelectedIds(j)
       /\ \A h \in 1..(i - 1) : selected[i][m].id \notin SelectedIds(h)) =>
        /\ Cardinality({ n \in DOMAIN mergedTweets :
                           mergedTweets[n].key = selected[i][m].id }) = 1
        /\ \A n \in DOMAIN mergedTweets :
             mergedTweets[n].key = selected[i][m].id =>
               mergedTweets[n].value = selected[i][m]

\* C24: the analytics snapshot createMergedCharacter writes for the merged
\* list is the one DataOrganizer.generateAnalytics computes for that list
\* (engagement over the non-retweets, the replies field, content types from
\* photos, videos and urls, the same top tweets, the zero-state when the
\* list is empty).
C24_SnapshotAsGenerateAnalytics ==
  (pc = "mergeDone" /\ mergedFiles.tweets # <<>>) =>
    mergedFiles.stats = << GenerateAnalytics(mergedFiles.tweets[1]) >>

\* the timestamps of the tweets inserted into the dedup map
InsertedTimestamps == { allTweets[i].value.timestamp : i \in DOMAIN allTweets }

\* C25: stats.oldestTweetDate and stats.newestTweetDate are the minimum and
\* the maximum timestamp over exactly the tweets inserted into the dedup
\* map; a record that was normalized but skipped by the date filter moves
\* neither bound.
C25_BoundsOverInserted ==
  pc \in {"collect", "collected"} =>
    /\ InsertedTimestamps = {} =>
         stats.oldestTweetDate = <<>> /\ stats.newestTweetDate = <<>>
    /\ InsertedTimestamps # {} =>
         /\ stats.oldestTweetDate # <<>> /\ stats.newestTweetDate # <<>>
         /\ stats.oldestTweetDate[1] \in InsertedTimestamps
         /\ stats.newestTweetDate[1] \in InsertedTimestamps
         /\ \A t \in InsertedTimestamps :
              stats.oldestTweetDate[1] <= t /\ t <= stats.newestTweetDate[1]

\* C26: processTweetData is pure: a call of it, whether the record is
\* accepted or rejected, leaves the stats counters and date bounds, the
\* dedup map and the configuration as they were.
C26_ProcessTweetDataPure ==
  [][(NormalizeOnce \/ NormalizeAgain) =>
       /\ stats' = stats
       /\ allTweets' = allTweets
       /\ options' = options /\ maxRetries' = maxRetries
       /\ fallbackEnabled' = fallbackEnabled]_vars

\* C27: when a storage write of saveTweets fails during run, run rejects
\* (no analytics is returned) and cleanup has executed before it rejects:
\* the logout of the session has been called and the cluster, if one was
\* launched, is released.
C27_SaveFailureCleansUp ==
  [][(pc = "failed" /\ allTweets # <<>>) =>
       /\ outcome' = "threw"
       /\ cleanupRan' /\ cluster' # "open"]_vars

\* C28: within cleanup a launched cluster is closed even when the logout of
\* the scraper throws: cleanup never finishes with the cluster still open.
C28_ClusterClosedByCleanup == cleanupRan => cluster # "open"

\* the sum of the per-account counts of an accountBreakdown
BreakdownTotal(breakdown) ==
  Sum([i \in DOMAIN SourceAccounts |->
         IF SourceAccounts[i] \in DOMAIN breakdown
           THEN breakdown[SourceAccounts[i]] ELSE 0])

\* C29: the provenance record agrees with the persisted merge result:
\* mergeStats.totalTweets is the sum of the counts in accountBreakdown and
\* the number of records of the merged raw list, also when two source
\* accounts contribute a tweet with the same id.
C29_ProvenanceConsistent ==
  \A n \in DOMAIN mergedFiles.mergeStats :
    LET provenance == mergedFiles.mergeStats[n] IN
      /\ provenance.totalTweets = BreakdownTotal(provenance.accountBreakdown)
      /\ mergedFiles.tweets # <<>>
      /\ provenance.totalTweets = Len(mergedFiles.tweets[1])

\* C30: whenever at least one source account has a persisted dataset,
\* createMergedCharacter completes and persists the merge result under the
\* target account at the target date: every file it writes goes into a
\* directory created for that account and date, also when the target date
\* is not the day of the merge or the target name is not lowercase.
C30_MergePersists ==
  (pc = "mergeDone" /\ \E account \in DOMAIN datasets : datasets[account] # <<>>) =>
    /\ mergeOutcome = "returned"
    /\ targetDirs
    /\ mergedFiles.tweets # <<>> /\ mergedFiles.stats # <<>>
    /\ mergedFiles.finetuning # <<>> /\ mergedFiles.mergeStats # <<>>

====
